---- MODULE Spec2Model ----
(***************************************************************************)
(* State machine of the SudokuGame class (the persistent variant of the    *)
(* game: notes as Sets, note elimination, localStorage snapshot).          *)
(* One action per event handler; every handler runs to completion          *)
(* (single-threaded JavaScript), so each action is the whole handler       *)
(* including the saveGame / checkWin calls it ends with.                    *)
(*                                                                         *)
(* Encoding of JavaScript values:                                          *)
(*   null board / solution / initialBoard  -> the empty function Null      *)
(*   selectedCell === null                 -> NoCell                       *)
(*   notes object                          -> function cell -> set of      *)
(*                                            digit strings (a JS Set,     *)
(*                                            insertion order abstracted)  *)
(*   localStorage item 'sudokuGameState'   -> Absent or <<snapshot>>       *)
(* Rendering (DOM classes, fireworks, message clearing timers) is not      *)
(* state of the engine; how a handler ended (the message it showed, an     *)
(* uncaught TypeError) is recorded in the history variable lastOp.         *)
(***************************************************************************)
EXTENDS Integers, Sequences, FiniteSets, TLC

\* ------------------------------------------------------------------ bounds
\* Number buttons the player presses: "1" .. DigitStr[MaxDigit], and erase.
MaxDigit == 2
\* Retry timers of startNewGame that may be pending at once.
MaxRetries == 2

\* --------------------------------------------------------- program constants
BoardCells == 81
Side == 9
BoxSide == 3
NoCell == -1

Cells == 0 .. (BoardCells - 1)
Null == << >>
Absent == << >>

DigitStr == <<"1", "2", "3", "4", "5", "6", "7", "8", "9">>
Digits == {DigitStr[d] : d \in 1 .. 9}
DigitVal(x) == CHOOSE d \in 1 .. 9 : DigitStr[d] = x

\* data-number of the number pad buttons; '' is the erase button
Buttons == {DigitStr[d] : d \in 1 .. MaxDigit} \cup {""}

validDifficulties == {"easy", "medium", "hard", "expert"}
\* options of the difficulty select the player picks from
DifficultyOptions == {"medium", "hard"}

\* ------------------------------------------------- the generator collaborator
GridRows ==
    << "5", "3", "4", "6", "7", "8", "9", "1", "2",
       "6", "7", "2", "1", "9", "5", "3", "4", "8",
       "1", "9", "8", "3", "4", "2", "5", "6", "7",
       "8", "5", "9", "7", "6", "1", "4", "2", "3",
       "4", "2", "6", "8", "5", "3", "7", "9", "1",
       "7", "1", "3", "9", "2", "4", "8", "5", "6",
       "9", "6", "1", "5", "3", "7", "2", "8", "4",
       "2", "8", "7", "4", "1", "9", "6", "3", "5",
       "3", "4", "5", "2", "8", "6", "1", "7", "9" >>

\* two solved grids: the one above and the one with digits 1 and 2 exchanged
SolutionA == [i \in Cells |-> GridRows[i + 1]]
SolutionB == [i \in Cells |->
                 IF SolutionA[i] = "1" THEN "2"
                 ELSE IF SolutionA[i] = "2" THEN "1" ELSE SolutionA[i]]

\* cells the generator leaves blank: 11-12 share a row only, 11-18 a box
\* only, 11-56 a column only; 12 and 18 are no peers

\* the sudoku-gen result for a solved grid g with the cells bs left blank
Generated(g, bs) ==
    [puzzle |-> [i \in Cells |-> IF i \in bs THEN "-" ELSE g[i]], solution |-> g]

\* getSudoku(difficulty): {puzzle, solution}, blanks written '-'; the choice
\* among the puzzles of a difficulty is the generator's
getSudoku(diff) == {Generated(SolutionA, {11, 12, 18}), Generated(SolutionB, {11, 56})}

\* cells the player clicks: the cells some puzzle leaves blank (each but 11
\* a given of the other puzzle)
ClickCells == {11, 12, 18, 56}

\* ------------------------------------------------------------------ state
VARIABLES board, solution, initialBoard, selectedCell, difficulty, noteMode,
          notes, storage, libReady, retries, lastOp

game == <<board, solution, initialBoard, selectedCell, difficulty, noteMode, notes>>
vars == <<board, solution, initialBoard, selectedCell, difficulty, noteMode,
          notes, storage, libReady, retries, lastOp>>

EmptyNotes == [i \in {} |-> {}]

\* what the last handler did: the handler (op: "construct" is the constructor,
\* "new" a startNewGame from the button or a retry timer), how it ended (out), the
\* verdict of the win check it ran (win: "none" when it ran none), and the
\* cells whose note set its note elimination changed (elim; for a query of
\* hasConstraintViolation, the cell queried)
Op(op, out, win, elim) == [op |-> op, out |-> out, win |-> win, elim |-> elim]

\* ------------------------------------------------------------ geometry
Row(i) == i \div Side
Col(i) == i % Side
BoxRow(i) == (Row(i) \div BoxSide) * BoxSide
BoxCol(i) == (Col(i) \div BoxSide) * BoxSide

\* faulty variant: the box test dropped
RelatedRowCol(i, cellIndex) ==
    \/ Row(i) = Row(cellIndex)
    \/ Col(i) = Col(cellIndex)

\* same row, column, or box
Related(i, cellIndex) ==
    \/ Row(i) = Row(cellIndex)
    \/ Col(i) = Col(cellIndex)
    \/ (BoxRow(i) = BoxRow(cellIndex) /\ BoxCol(i) = BoxCol(cellIndex))

Peers(cellIndex) == {i \in Cells : i # cellIndex /\ Related(i, cellIndex)}

\* ------------------------------------------------------------ persistence
\* Array.from(set): the members as a list (ascending digit order stands for
\* the Set's iteration order)
RECURSIVE ArrayFrom(_)
ArrayFrom(S) ==
    IF S = {} THEN << >>
    ELSE LET m == CHOOSE x \in S : \A y \in S : DigitVal(x) <= DigitVal(y)
         IN <<m>> \o ArrayFrom(S \ {m})

\* faulty variant: only the first element of the array is taken
NewSetFirst(arr) == IF Len(arr) = 0 THEN {} ELSE {arr[1]}

\* new Set(array)
NewSet(arr) == {arr[k] : k \in DOMAIN arr}

\* a JSON note value: an array of digits (current) or a string (legacy)
ArrayValue(arr) == [kind |-> "array", items |-> arr, str |-> ""]
StringValue(s) == [kind |-> "string", items |-> << >>, str |-> s]

notesForStorage(nts) == [k \in DOMAIN nts |-> ArrayValue(ArrayFrom(nts[k]))]

\* the gameState object saveGame stringifies
Snapshot(b, sol, ib, nts, diff, sel, nm) ==
    [board |-> b, solution |-> sol, initialBoard |-> ib,
     notes |-> notesForStorage(nts), difficulty |-> diff,
     selectedCell |-> sel, noteMode |-> nm]

\* localStorage after saveGame
saveGame(b, sol, ib, nts, diff, sel, nm) ==
    << Snapshot(b, sol, ib, nts, diff, sel, nm) >>

\* loadGame's validation of the parsed snapshot
LoadValid(st) ==
    /\ st # Absent
    /\ st[1].board # Null
    /\ st[1].solution # Null
    /\ st[1].initialBoard # Null

\* faulty variant: only the current format is recognised
LoadNotesArraysOnly(saved) ==
    [k \in {j \in DOMAIN saved : saved[j].kind = "array"} |-> NewSet(saved[k].items)]

\* loadGame's conversion of the saved notes to Sets
LoadNotes(saved) ==
    [k \in {j \in DOMAIN saved : saved[j].kind \in {"array", "string"}} |->
        IF saved[k].kind = "array" THEN NewSet(saved[k].items)
        ELSE {saved[k].str}]

LoadDifficulty(d) == IF d \in validDifficulties THEN d ELSE "medium"

\* the fields loadGame assigns from a valid snapshot
LoadedGame(st) ==
    [board |-> st[1].board, solution |-> st[1].solution,
     initialBoard |-> st[1].initialBoard, notes |-> LoadNotes(st[1].notes),
     difficulty |-> LoadDifficulty(st[1].difficulty),
     selectedCell |-> st[1].selectedCell, noteMode |-> st[1].noteMode]

\* ------------------------------------------------------------ engine helpers
\* faulty variant: the puzzle is taken as generated
ReplaceNothing(puzzle) == puzzle

\* result.puzzle.replace(/-/g, '.')
ReplaceDash(puzzle) == [i \in Cells |-> IF puzzle[i] = "-" THEN "." ELSE puzzle[i]]

\* !this.board.includes('.')
IsComplete(b) == \A i \in Cells : b[i] # "."

\* faulty variant: some instead of every
isCorrectSome(b, sol) == \E index \in Cells : b[index] = sol[index]

\* checkWin's isCorrect
isCorrect(b, sol) == \A index \in Cells : b[index] = sol[index]

\* delete this.notes[cell]
DeleteNote(nts, cell) == [i \in DOMAIN nts \ {cell} |-> nts[i]]

\* cells whose note set eliminateNotesInRelatedCells changes
ElimHit(nts, cellIndex, number) ==
    {i \in DOMAIN nts : i # cellIndex /\ Related(i, cellIndex) /\ number \in nts[i]}

\* faulty variant: the elimination is not run
eliminateNothing(nts, cellIndex, number) == nts

\* faulty variant: a note set emptied by the elimination is kept
eliminateKeepsEmpty(nts, cellIndex, number) ==
    [i \in DOMAIN nts |->
        IF i \in ElimHit(nts, cellIndex, number) THEN nts[i] \ {number} ELSE nts[i]]

eliminateNotesInRelatedCells(nts, cellIndex, number) ==
    LET hit == ElimHit(nts, cellIndex, number)
        emptied == {i \in hit : nts[i] \ {number} = {}}
    IN [i \in DOMAIN nts \ emptied |->
           IF i \in hit THEN nts[i] \ {number} ELSE nts[i]]

\* faulty variant: a note set emptied by the toggle is kept
ToggleNoteKeepsEmpty(nts, cell, number) ==
    LET cur == IF cell \in DOMAIN nts THEN nts[cell] ELSE {}
    IN [i \in DOMAIN nts \cup {cell} |->
           IF i # cell THEN nts[i]
           ELSE IF number \in cur THEN cur \ {number} ELSE cur \cup {number}]

\* the note toggle of placeNumber in note mode
ToggleNote(nts, cell, number) ==
    LET cur == IF cell \in DOMAIN nts THEN nts[cell] ELSE {}
    IN IF number \in cur
       THEN IF cur \ {number} = {}
            THEN DeleteNote(nts, cell)
            ELSE [nts EXCEPT ![cell] = cur \ {number}]
       ELSE [i \in DOMAIN nts \cup {cell} |->
                IF i = cell THEN cur \cup {number} ELSE nts[i]]

\* faulty variant: the early return for an empty cell is missing
hasConstraintViolationOfEmpty(b, cellIndex) ==
    \E i \in Cells : i # cellIndex /\ Related(i, cellIndex) /\ b[i] = b[cellIndex]

hasConstraintViolation(b, cellIndex) ==
    /\ b[cellIndex] # "."
    /\ \E i \in Cells : i # cellIndex /\ Related(i, cellIndex) /\ b[i] = b[cellIndex]

\* ------------------------------------------------------------ construction
\* the state new SudokuGame() leaves when nothing is stored: loadGame fails
\* and startNewGame runs, with the generator script loaded (ready) or not
Constructed(ready) ==
    /\ difficulty = "medium"
    /\ noteMode = FALSE
    /\ selectedCell = NoCell
    /\ notes = EmptyNotes
    /\ libReady = ready
    /\ IF ready
       THEN \E result \in getSudoku("medium") :
              /\ initialBoard = ReplaceDash(result.puzzle)
              /\ board = ReplaceDash(result.puzzle)
              /\ solution = result.solution
              /\ storage = saveGame(ReplaceDash(result.puzzle), result.solution,
                                    ReplaceDash(result.puzzle), EmptyNotes,
                                    "medium", NoCell, FALSE)
              /\ retries = 0
              /\ lastOp = Op("construct", "started", "none", {})
       ELSE /\ initialBoard = Null
            /\ board = Null
            /\ solution = Null
            /\ storage = Absent
            /\ retries = 1
            /\ lastOp = Op("construct", "loading", "none", {})

\* a first visit with the generator script already loaded
Init == Constructed(TRUE)

\* a first visit, the generator script loaded or still loading
InitFull == \E ready \in BOOLEAN : Constructed(ready)

\* ------------------------------------------------------------ handlers
others == <<libReady, retries>>

\* faulty variant: the selectCell of the game's first version, which returns early
\* on a given
selectCellUnlessGiven(index) ==
    IF initialBoard # Null /\ initialBoard[index] # "."
    THEN /\ lastOp' = Op("select", "ok", "none", {})
         /\ UNCHANGED <<game, storage, libReady, retries>>
    ELSE /\ selectedCell' = index
         /\ storage' = IF board = Null THEN storage
                       ELSE saveGame(board, solution, initialBoard, notes,
                                     difficulty, index, noteMode)
         /\ lastOp' = Op("select", IF board = Null THEN "threw" ELSE "ok", "none", {})
         /\ UNCHANGED <<board, solution, initialBoard, difficulty, noteMode, notes,
                        libReady, retries>>

\* click on a cell
selectCell(index) ==
    /\ selectedCell' = index
    /\ IF board = Null
       THEN \* highlightRelatedCells reads this.board[index] of a null board:
            \* the TypeError ends the handler before saveGame
            /\ storage' = storage
            /\ lastOp' = Op("select", "threw", "none", {})
       ELSE /\ storage' = saveGame(board, solution, initialBoard, notes,
                                   difficulty, index, noteMode)
            /\ lastOp' = Op("select", "ok", "none", {})
    /\ UNCHANGED <<board, solution, initialBoard, difficulty, noteMode, notes, others>>

\* faulty variant: toggling a note leaves the committed value in place
PlaceBoardKeepsValue(b, nm, c, number) ==
    IF nm
    THEN IF number = "" THEN [b EXCEPT ![c] = "."] ELSE b
    ELSE [b EXCEPT ![c] = IF number = "" THEN "." ELSE number]

\* faulty variant: a digit that a related cell holds is not placed
PlaceBoardUnlessDuplicate(b, nm, c, number) ==
    IF nm
    THEN [b EXCEPT ![c] = "."]
    ELSE IF number = "" THEN [b EXCEPT ![c] = "."]
    ELSE IF \E i \in Cells : i # c /\ Related(i, c) /\ b[i] = number THEN b
    ELSE [b EXCEPT ![c] = number]

\* board and notes after the mutation of placeNumber (selected cell c, not a given)
PlaceBoard(b, nm, c, number) ==
    IF nm
    THEN [b EXCEPT ![c] = "."]
    ELSE [b EXCEPT ![c] = IF number = "" THEN "." ELSE number]

\* faulty variant: erase in value mode leaves the cell's notes
PlaceNotesEraseKeepsNotes(nts, nm, c, number) ==
    IF nm
    THEN IF number = "" THEN DeleteNote(nts, c) ELSE ToggleNote(nts, c, number)
    ELSE IF number = ""
         THEN nts
         ELSE eliminateNotesInRelatedCells(DeleteNote(nts, c), c, number)

PlaceNotes(nts, nm, c, number) ==
    IF nm
    THEN IF number = "" THEN DeleteNote(nts, c) ELSE ToggleNote(nts, c, number)
    ELSE IF number = ""
         THEN DeleteNote(nts, c)
         ELSE eliminateNotesInRelatedCells(DeleteNote(nts, c), c, number)

\* whether placeNumber goes on to checkWin
PlaceChecksWin(b, nm) == ~nm /\ IsComplete(b)

\* checkWin: the verdict it reports
checkWin(b, sol) == IF isCorrect(b, sol) THEN "won" ELSE "wrong"

\* faulty variant: the handler's saveGame runs after checkWin
AfterWinCheckSavedLast(saved, checked, b, sol) == saved

\* localStorage after the handler's saveGame and, when run, checkWin
AfterWinCheck(saved, checked, b, sol) ==
    IF checked /\ isCorrect(b, sol) THEN Absent ELSE saved

\* faulty variants of the given test: the test dropped, the comparison inverted
IsGivenNever(ib, cell) == FALSE
IsGivenInverted(ib, cell) == ib[cell] = "."

\* placeNumber's test for a given: this.initialBoard[this.selectedCell] !== '.'
IsGiven(ib, cell) == ib[cell] # "."

\* click on a number pad button
placeNumber(number) ==
    IF selectedCell = NoCell
    THEN /\ lastOp' = Op("place", "noSelection", "none", {})
         /\ UNCHANGED <<game, storage, others>>
    ELSE IF initialBoard = Null
    THEN \* this.initialBoard[...] of null: TypeError
         /\ lastOp' = Op("place", "threw", "none", {})
         /\ UNCHANGED <<game, storage, others>>
    ELSE IF IsGiven(initialBoard, selectedCell)
    THEN /\ lastOp' = Op("place", "given", "none", {})
         /\ UNCHANGED <<game, storage, others>>
    ELSE LET c == selectedCell
             b2 == PlaceBoard(board, noteMode, c, number)
             n2 == PlaceNotes(notes, noteMode, c, number)
             checked == PlaceChecksWin(b2, noteMode)
             saved == saveGame(b2, solution, initialBoard, n2, difficulty, c, noteMode)
             verdict == IF checked THEN checkWin(b2, solution) ELSE "none"
         IN /\ board' = b2
            /\ notes' = n2
            /\ storage' = AfterWinCheck(saved, checked, b2, solution)
            /\ lastOp' = Op("place",
                            IF number = "" THEN "erased"
                            ELSE IF noteMode THEN "noted" ELSE "placed",
                            verdict,
                            IF ~noteMode /\ number # ""
                            THEN ElimHit(DeleteNote(notes, c), c, number) ELSE {})
            /\ UNCHANGED <<solution, initialBoard, selectedCell, difficulty, noteMode, others>>

\* faulty variant: the board value is not tested
emptyCellsNonGiven(b, ib) == {index \in Cells : ib[index] = "."}

\* showHint's emptyCells
emptyCells(b, ib) == {index \in Cells : b[index] = "." /\ ib[index] = "."}

\* click on the hint button
showHint ==
    IF board = Null
    THEN \* this.board.forEach of null: TypeError
         /\ lastOp' = Op("hint", "threw", "none", {})
         /\ UNCHANGED <<game, storage, others>>
    ELSE IF emptyCells(board, initialBoard) = {}
    THEN /\ lastOp' = Op("hint", "noHint", "none", {})
         /\ UNCHANGED <<game, storage, others>>
    ELSE \E randomIndex \in emptyCells(board, initialBoard) :
           LET hintNumber == solution[randomIndex]
               b2 == [board EXCEPT ![randomIndex] = hintNumber]
               n1 == DeleteNote(notes, randomIndex)
               n2 == eliminateNotesInRelatedCells(n1, randomIndex, hintNumber)
               checked == IsComplete(b2)
               \* selectCell's saveGame is overwritten by showHint's own
               saved == saveGame(b2, solution, initialBoard, n2, difficulty,
                                 randomIndex, noteMode)
               verdict == IF checked THEN checkWin(b2, solution) ELSE "none"
           IN /\ board' = b2
              /\ notes' = n2
              /\ selectedCell' = randomIndex
              /\ storage' = AfterWinCheck(saved, checked, b2, solution)
              /\ lastOp' = Op("hint", "hinted", verdict,
                              ElimHit(n1, randomIndex, hintNumber))
              /\ UNCHANGED <<solution, initialBoard, difficulty, noteMode, others>>

\* faulty variant: the test for an empty cell is missing
ValidateErrorOfEmpty(b, ib, sol) ==
    {index \in Cells : ib[index] = "." /\ b[index] # sol[index]}

\* cells validateBoard marks 'correct' / 'error'
ValidateCorrect(b, ib, sol) ==
    {index \in Cells : b[index] # "." /\ ib[index] = "." /\ b[index] = sol[index]}
ValidateError(b, ib, sol) ==
    {index \in Cells : b[index] # "." /\ ib[index] = "." /\ b[index] # sol[index]}

\* click on the validate button
validateBoard ==
    /\ IF board = Null
       THEN lastOp' = Op("validate", "threw", "none", {})
       ELSE IF ValidateError(board, initialBoard, solution) # {}
       THEN lastOp' = Op("validate", "hasErrors", "none", {})
       ELSE lastOp' = Op("validate", "noErrors", "none", {})
    /\ UNCHANGED <<game, storage, others>>

\* change of the note-mode checkbox
toggleNoteMode ==
    /\ noteMode' = ~noteMode
    /\ storage' = saveGame(board, solution, initialBoard, notes, difficulty,
                           selectedCell, ~noteMode)
    /\ lastOp' = Op("mode", "ok", "none", {})
    /\ UNCHANGED <<board, solution, initialBoard, selectedCell, difficulty, notes, others>>

\* change of the difficulty select: the class defines no
\* updateDifficultyDisplay, so the handler throws before saveGame
changeDifficulty(value) ==
    /\ value # difficulty
    /\ difficulty' = value
    /\ lastOp' = Op("difficulty", "threw", "none", {})
    /\ UNCHANGED <<board, solution, initialBoard, selectedCell, noteMode, notes,
                   storage, others>>

\* faulty variant: the attempt gives up, no timer is set
NotRescheduled(pending) == pending

\* the retry timers outstanding after setTimeout(() => this.startNewGame(), 500)
Rescheduled(pending) == pending + 1

\* body of startNewGame, run with `pending` retry timers outstanding
startNewGame(pending) ==
    IF ~libReady
    THEN /\ retries' = Rescheduled(pending)
         /\ lastOp' = Op("new", "loading", "none", {})
         /\ UNCHANGED <<game, storage, libReady>>
    ELSE \E result \in getSudoku(difficulty) :
           /\ initialBoard' = ReplaceDash(result.puzzle)
           /\ board' = initialBoard'
           /\ solution' = result.solution
           /\ notes' = EmptyNotes
           /\ storage' = saveGame(board', solution', initialBoard', notes',
                                  difficulty, selectedCell, noteMode)
           /\ retries' = pending
           /\ lastOp' = Op("new", "started", "none", {})
           /\ UNCHANGED <<selectedCell, difficulty, noteMode, libReady>>

\* click on the new-game button
clickNewGame ==
    /\ libReady \/ retries < MaxRetries
    /\ startNewGame(retries)

\* a setTimeout(() => this.startNewGame(), 500) fires
retryFires ==
    /\ retries > 0
    /\ startNewGame(retries - 1)

\* the generator script finishes loading: getSudoku becomes defined
libLoads ==
    /\ ~libReady
    /\ libReady' = TRUE
    /\ lastOp' = Op("script", "loaded", "none", {})
    /\ UNCHANGED <<game, storage, retries>>

\* the page is loaded again: new SudokuGame() over the kept localStorage,
\* with the generator script loaded by then (ready) or not
reload(ready) ==
    /\ libReady' = ready
    /\ IF LoadValid(storage)
       THEN LET g == LoadedGame(storage)
            IN /\ board' = g.board
               /\ solution' = g.solution
               /\ initialBoard' = g.initialBoard
               /\ notes' = g.notes
               /\ difficulty' = g.difficulty
               /\ selectedCell' = g.selectedCell
               /\ noteMode' = g.noteMode
               /\ retries' = 0
               /\ lastOp' = Op("construct", "loaded", "none", {})
               /\ UNCHANGED storage
       ELSE /\ difficulty' = "medium"
            /\ noteMode' = FALSE
            /\ selectedCell' = NoCell
            /\ notes' = EmptyNotes
            /\ IF ready
               THEN \E result \in getSudoku("medium") :
                      /\ initialBoard' = ReplaceDash(result.puzzle)
                      /\ board' = ReplaceDash(result.puzzle)
                      /\ solution' = result.solution
                      /\ storage' = saveGame(ReplaceDash(result.puzzle),
                                             result.solution,
                                             ReplaceDash(result.puzzle),
                                             EmptyNotes, "medium", NoCell, FALSE)
                      /\ retries' = 0
                      /\ lastOp' = Op("construct", "started", "none", {})
               ELSE /\ initialBoard' = Null
                    /\ board' = Null
                    /\ solution' = Null
                    /\ storage' = storage
                    /\ retries' = 1
                    /\ lastOp' = Op("construct", "loading", "none", {})

\* ------------------------------------------- handlers, the store's write failing
\* localStorage.setItem throws (storage disabled, quota exceeded): saveGame
\* has no try/catch, so the exception ends the handler that called it; what
\* the handler assigned before the call stays assigned

\* new SudokuGame() with the generator loaded, nothing stored and a store
\* that takes no write: the constructor's startNewGame assigns the game and
\* is left by saveGame's exception, the listeners stay attached
InitStore ==
    /\ difficulty = "medium"
    /\ noteMode = FALSE
    /\ selectedCell = NoCell
    /\ notes = EmptyNotes
    /\ libReady = TRUE
    /\ retries = 0
    /\ \E result \in getSudoku("medium") :
          /\ initialBoard = ReplaceDash(result.puzzle)
          /\ board = ReplaceDash(result.puzzle)
          /\ solution = result.solution
    /\ storage = Absent
    /\ lastOp = Op("construct", "storeThrew", "none", {})

\* selectCell: the exception leaves saveGame, the handler's last statement
selectCellStoreFails(index) ==
    IF board = Null
    THEN selectCell(index)
    ELSE /\ selectedCell' = index
         /\ lastOp' = Op("select", "storeThrew", "none", {})
         /\ UNCHANGED <<board, solution, initialBoard, difficulty, noteMode, notes,
                        storage, others>>

\* placeNumber: the returns before saveGame are as with a working store;
\* otherwise the exception leaves the handler before its win check
placeNumberStoreFails(number) ==
    IF selectedCell = NoCell \/ initialBoard = Null \/ IsGiven(initialBoard, selectedCell)
    THEN placeNumber(number)
    ELSE /\ board' = PlaceBoard(board, noteMode, selectedCell, number)
         /\ notes' = PlaceNotes(notes, noteMode, selectedCell, number)
         /\ lastOp' = Op("place", "storeThrew", "none",
                         IF ~noteMode /\ number # ""
                         THEN ElimHit(DeleteNote(notes, selectedCell), selectedCell, number)
                         ELSE {})
         /\ UNCHANGED <<solution, initialBoard, selectedCell, difficulty, noteMode,
                        storage, others>>

\* showHint: with no cell to fill it returns before any write; otherwise the
\* exception leaves the selectCell it calls, and with it showHint, before
\* the message and the win check
showHintStoreFails ==
    IF board = Null \/ emptyCells(board, initialBoard) = {}
    THEN showHint
    ELSE /\ \E randomIndex \in emptyCells(board, initialBoard) :
               LET hintNumber == solution[randomIndex]
                   n1 == DeleteNote(notes, randomIndex)
               IN /\ board' = [board EXCEPT ![randomIndex] = hintNumber]
                  /\ notes' = eliminateNotesInRelatedCells(n1, randomIndex, hintNumber)
                  /\ selectedCell' = randomIndex
                  /\ lastOp' = Op("hint", "storeThrew", "none",
                                  ElimHit(n1, randomIndex, hintNumber))
         /\ UNCHANGED <<solution, initialBoard, difficulty, noteMode, storage, others>>

\* the note-mode checkbox: the flag is assigned before saveGame
toggleNoteModeStoreFails ==
    /\ noteMode' = ~noteMode
    /\ lastOp' = Op("mode", "storeThrew", "none", {})
    /\ UNCHANGED <<board, solution, initialBoard, selectedCell, difficulty, notes,
                   storage, others>>

\* the new-game button, generator available: the game is replaced before
\* saveGame
startNewGameStoreFails ==
    /\ libReady
    /\ \E result \in getSudoku(difficulty) :
          /\ initialBoard' = ReplaceDash(result.puzzle)
          /\ board' = initialBoard'
          /\ solution' = result.solution
          /\ notes' = EmptyNotes
    /\ lastOp' = Op("new", "storeThrew", "none", {})
    /\ UNCHANGED <<selectedCell, difficulty, noteMode, storage, others>>

\* play in a session whose generator script is loaded from the start and
\* whose difficulty select is left alone
Next ==
    \/ \E index \in ClickCells : selectCell(index)
    \/ \E number \in Buttons : placeNumber(number)
    \/ showHint
    \/ validateBoard
    \/ toggleNoteMode
    \/ clickNewGame
    \/ reload(TRUE)

\* every handler and event: also the difficulty select, the script that
\* loads late, the retry timers and a reload before the script is loaded
NextFull ==
    \/ Next
    \/ \E value \in DifficultyOptions : changeDifficulty(value)
    \/ retryFires
    \/ libLoads
    \/ reload(FALSE)

Spec == Init /\ [][Next]_vars

SpecFull == InitFull /\ [][NextFull]_vars

\* play in a session whose store takes no write
NextStore ==
    \/ \E index \in ClickCells : selectCellStoreFails(index)
    \/ \E number \in Buttons : placeNumberStoreFails(number)
    \/ showHintStoreFails
    \/ validateBoard
    \/ toggleNoteModeStoreFails
    \/ startNewGameStoreFails

SpecStore == InitStore /\ [][NextStore]_vars

\* ------------------------------------- a store left by an earlier version
\* the note values a stored snapshot may hold for a cell: a list of digits
\* (current format) or a single-digit string (legacy format)
StoredNoteValues ==
    {ArrayValue(<<"1">>), ArrayValue(<<"1", "2">>), StringValue("1"), StringValue("2")}

\* the snapshots of a fresh game of the generator with such notes at some of
\* its blank cells
StoredSnapshots ==
    UNION {
        {[board |-> ReplaceDash(result.puzzle), solution |-> result.solution,
          initialBoard |-> ReplaceDash(result.puzzle), notes |-> saved,
          difficulty |-> "medium", selectedCell |-> NoCell, noteMode |-> FALSE] :
            saved \in UNION {[K -> StoredNoteValues] :
                                K \in SUBSET {i \in Cells : result.puzzle[i] = "-"}}} :
        result \in getSudoku("medium")}

\* new SudokuGame() over such a store: loadGame succeeds
InitLegacy ==
    /\ storage \in {<<snapshot>> : snapshot \in StoredSnapshots}
    /\ board = LoadedGame(storage).board
    /\ solution = LoadedGame(storage).solution
    /\ initialBoard = LoadedGame(storage).initialBoard
    /\ notes = LoadedGame(storage).notes
    /\ difficulty = LoadedGame(storage).difficulty
    /\ selectedCell = LoadedGame(storage).selectedCell
    /\ noteMode = LoadedGame(storage).noteMode
    /\ libReady = TRUE
    /\ retries = 0
    /\ lastOp = Op("construct", "loaded", "none", {})

SpecLegacy == InitLegacy /\ [][Next]_vars

\* --------------------------- a store whose snapshot loadGame gives up on
\* a JSON string, as against an array of one-character strings, written as
\* the sequence of its characters
JsString(b) == [k \in 1 .. BoardCells |-> b[k - 1]]

\* whether a parsed value has Array's forEach, which renderBoard's
\* updateNumberButtonStates calls on this.board
hasForEach(v) == DOMAIN v = Cells

\* snapshots with the three required fields present and the board stored as
\* a string, the way initialBoard is held in memory
StoredUnloadable ==
    {[board |-> JsString(ReplaceDash(result.puzzle)), solution |-> result.solution,
      initialBoard |-> ReplaceDash(result.puzzle), notes |-> saved,
      difficulty |-> diff, selectedCell |-> sel, noteMode |-> nm] :
        result \in getSudoku("medium"),
        saved \in {EmptyNotes, [k \in {11} |-> ArrayValue(<<"1">>)]},
        diff \in DifficultyOptions, sel \in {NoCell, 11}, nm \in BOOLEAN}

\* new SudokuGame() over such a store, the generator loaded: loadGame
\* assigns the fields, renderBoard throws on this.board.forEach, the catch
\* returns false and the constructor calls startNewGame
InitUnloadable ==
    /\ libReady = TRUE
    /\ retries = 0
    /\ \E snapshot \in StoredUnloadable :
          LET g == LoadedGame(<<snapshot>>)
          IN /\ LoadValid(<<snapshot>>)
             /\ ~hasForEach(g.board)
             /\ difficulty = g.difficulty
             /\ selectedCell = g.selectedCell
             /\ noteMode = g.noteMode
    /\ \E result \in getSudoku(difficulty) :
          /\ initialBoard = ReplaceDash(result.puzzle)
          /\ board = ReplaceDash(result.puzzle)
          /\ solution = result.solution
    /\ notes = EmptyNotes
    /\ storage = saveGame(board, solution, initialBoard, notes, difficulty,
                          selectedCell, noteMode)
    /\ lastOp = Op("construct", "started", "none", {})

SpecUnloadable == InitUnloadable /\ [][Next]_vars

\* ------------------------------------------------ the constraint check alone
\* boards under test: a stored game whose player has filled or cleared four
\* cells. Cell 20 has cell 0 as a peer by box only, 24 by row only, 74 by
\* column only; the solved grid holds '5' at 0, 24 and 74 and '8' at 20.
TestCells == {0, 20, 24, 74}
TestValues == {".", "5", "8"}
BoardsUnderTest ==
    {[i \in Cells |-> IF i \in TestCells THEN f[i] ELSE SolutionA[i]] :
        f \in [TestCells -> TestValues]}

\* such a game, loaded back from the store
InitViolation ==
    /\ board \in BoardsUnderTest
    /\ solution = SolutionA
    /\ initialBoard = [i \in Cells |-> IF i \in TestCells THEN "." ELSE SolutionA[i]]
    /\ selectedCell = NoCell
    /\ difficulty = "medium"
    /\ noteMode = FALSE
    /\ notes = EmptyNotes
    /\ storage = saveGame(board, solution, initialBoard, notes, difficulty,
                          selectedCell, noteMode)
    /\ libReady = TRUE
    /\ retries = 0
    /\ lastOp = Op("construct", "loaded", "none", {})

\* a call of hasConstraintViolation(cellIndex), as renderBoard makes it
queryViolation(cellIndex) ==
    /\ lastOp' = Op("violation",
                    IF hasConstraintViolation(board, cellIndex) THEN "error" ELSE "clean",
                    "none", {cellIndex})
    /\ UNCHANGED <<game, storage, others>>

NextViolation == \E cellIndex \in Cells : queryViolation(cellIndex)

SpecViolation == InitViolation /\ [][NextViolation]_vars

\* a session whose generator script may load late, the difficulty select left
\* alone
NextBoot ==
    \/ Next
    \/ retryFires
    \/ libLoads
    \/ reload(FALSE)

\* the new-game button pressed while the generator script is still loading
clickNewGameWhileLoading ==
    /\ ~libReady
    /\ clickNewGame

\* a session in which the new-game button is used only while the script is
\* loading: once it is loaded, startNewGame is called by retry timers alone
NextRetry ==
    \/ \E index \in ClickCells : selectCell(index)
    \/ \E number \in Buttons : placeNumber(number)
    \/ showHint
    \/ validateBoard
    \/ toggleNoteMode
    \/ clickNewGameWhileLoading
    \/ retryFires
    \/ libLoads
    \/ reload(TRUE)
    \/ reload(FALSE)

SpecRetry == InitFull /\ [][NextRetry]_vars

\* the browser's timers: a pending retry timer does fire
SpecLive == InitFull /\ [][NextBoot]_vars /\ WF_vars(retryFires)

\* ====================================================================== claims
\* the spec's own reading of the grid, independent of the handlers' helpers
NonGiven == {i \in Cells : initialBoard[i] = "."}
NoteSet(nts, i) == IF i \in DOMAIN nts THEN nts[i] ELSE {}
IsFull(b) == "." \notin {b[i] : i \in Cells}

\* C1: given-cell immutability. In every state with a game, every cell that
\* is a given of the initial board (initialBoard[i] # '.') holds its initial
\* value on the board.
GivenCellsKept ==
    board # Null =>
        \A i \in Cells : initialBoard[i] # "." => board[i] = initialBoard[i]

\* a write on a selected given has just been rejected, in a game in which a
\* non-given cell has been filled
GivenWriteRejected ==
    /\ lastOp.op = "place" /\ lastOp.out = "given"
    /\ \E i \in NonGiven : board[i] # "."

\* C2: mutual exclusivity. No cell has both a non-empty board value and an
\* entry in notes.
MutualExclusion ==
    board # Null => \A i \in DOMAIN notes : board[i] = "."

\* a game with both notes and committed values has just been loaded back
LoadedNotesAndValues ==
    /\ lastOp.op = "construct" /\ lastOp.out = "loaded"
    /\ notes # EmptyNotes
    /\ \E i \in NonGiven : board[i] # "."

\* the peers of cell c as the spec defines them: the other cells of c's row,
\* column or 3x3 box
UnitPeers(c) ==
    {i \in Cells \ {c} :
        \/ i \div 9 = c \div 9
        \/ i % 9 = c % 9
        \/ (i \div 27 = c \div 27 /\ (i % 9) \div 3 = (c % 9) \div 3)}

\* C3: note elimination. A step that commits digit D into cell C (a
\* value-mode placeNumber or a showHint) leaves no peer of C with D in its
\* note set, takes nothing but D out of the peers' note sets, deletes the
\* peer note sets it emptied, and leaves the note sets of the non-peers and
\* every board cell but C as they were.
NoteElimination ==
    [][lastOp'.out \in {"placed", "hinted"} =>
        LET C == selectedCell'
            D == board'[C]
        IN /\ \A p \in UnitPeers(C) : D \notin NoteSet(notes', p)
           /\ \A p \in UnitPeers(C) : NoteSet(notes', p) = NoteSet(notes, p) \ {D}
           /\ \A p \in UnitPeers(C) \cap DOMAIN notes' : notes'[p] # {}
           /\ \A i \in Cells \ (UnitPeers(C) \cup {C}) :
                 /\ i \in DOMAIN notes' <=> i \in DOMAIN notes
                 /\ NoteSet(notes', i) = NoteSet(notes, i)
           /\ \A i \in Cells \ {C} : board'[i] = board[i]
      ]_vars

\* a placement has just emptied, and so deleted, a peer's note set while a
\* non-peer keeps the placed digit among its notes
EliminatedAtPeerOnly ==
    /\ lastOp.op = "place" /\ lastOp.out = "placed"
    /\ \E p \in lastOp.elim : p \in UnitPeers(selectedCell) /\ p \notin DOMAIN notes
    /\ \E q \in DOMAIN notes \ UnitPeers(selectedCell) :
          board[selectedCell] \in notes[q]

\* the in-memory game, and the snapshot saveGame writes in the current state
Current ==
    [board |-> board, solution |-> solution, initialBoard |-> initialBoard,
     notes |-> notes, difficulty |-> difficulty, selectedCell |-> selectedCell,
     noteMode |-> noteMode]
SavedNow ==
    saveGame(board, solution, initialBoard, notes, difficulty, selectedCell, noteMode)

\* loadGame accepts the snapshot of the current state and reconstructs board,
\* solution, initial board, note sets, difficulty, selected cell and mode flag
RoundTripHolds == LoadValid(SavedNow) /\ LoadedGame(SavedNow) = Current

\* C4 as stated: for any reachable state S, loadGame applied to the snapshot
\* saveGame wrote in S succeeds and reconstructs S (here: whenever the store
\* holds the snapshot of the current state).
RoundTrip == storage = SavedNow => RoundTripHolds

\* C4 as amended: the round trip holds in every reachable state in which a
\* game exists (board, solution and initial board are set); the snapshot
\* written before the first game starts is rejected by loadGame.
RoundTripOfAGame == board # Null => RoundTripHolds

\* a game with a two-digit note set, a selection, note mode on and a changed
\* difficulty has just been loaded back
LoadedRichGame ==
    /\ lastOp.op = "construct" /\ lastOp.out = "loaded"
    /\ \E i \in DOMAIN notes : Cardinality(notes[i]) = 2
    /\ noteMode /\ selectedCell # NoCell /\ difficulty = "hard"

\* C5: win detection. A value-mode placeNumber or a showHint that leaves the
\* board with no empty cell runs the win check, which reports won exactly
\* when board equals solution; when the full board differs from the solution
\* it reports not won and the solution, the other board cells and the other
\* cells' notes are as before the step, the cell just filled keeps its value.
WinDetection ==
    [][lastOp'.out \in {"placed", "hinted"} /\ IsFull(board') =>
        /\ lastOp'.win = IF board' = solution' THEN "won" ELSE "wrong"
        /\ board' # solution' =>
              /\ solution' = solution
              /\ \A i \in Cells \ {selectedCell'} :
                    board'[i] = board[i] /\ NoteSet(notes', i) = NoteSet(notes, i)
              /\ selectedCell' \notin DOMAIN notes'
      ]_vars

\* a placement has just completed the board with a wrong value
CompletedWrong ==
    /\ lastOp.op = "place" /\ lastOp.out = "placed" /\ lastOp.win = "wrong"
    /\ IsFull(board) /\ board # solution

\* C6: cleared on a correct win. When a placeNumber or showHint has just
\* completed the board with board = solution, the store holds no snapshot.
ClearedOnWin ==
    (lastOp.out \in {"placed", "hinted"} /\ IsFull(board) /\ board = solution)
        => storage = Absent

\* a hint has just completed the board correctly and the store is empty
HintWon ==
    /\ lastOp.op = "hint" /\ lastOp.out = "hinted"
    /\ board = solution /\ storage = Absent

\* what startNewGame sets from a generator result, the spec's way: the puzzle
\* with every blank marker turned into '.'
Normalized(puzzle) ==
    [i \in Cells |-> IF puzzle[i] \in Digits THEN puzzle[i] ELSE "."]
StartedFrom(result, ib, b, sol, nts) ==
    /\ ib = Normalized(result.puzzle)
    /\ \A i \in Cells : b[i] = ib[i]
    /\ sol = result.solution
    /\ nts = EmptyNotes

\* C7 as stated: after a successful startNewGame, from any prior state, the
\* initial board is the generated puzzle with blanks normalized to '.', the
\* board equals it cell for cell, the solution is the generator's, notes is
\* empty and no cell is selected.
NewGameFresh ==
    (lastOp.op = "new" /\ lastOp.out = "started") =>
        /\ \E result \in getSudoku(difficulty) :
              StartedFrom(result, initialBoard, board, solution, notes)
        /\ selectedCell = NoCell

\* C7 as amended: a successful startNewGame sets initial board, board,
\* solution and notes as stated and leaves the selection as it was: a cell
\* selected before the call is still selected after it.
NewGameKeepsSelection ==
    [][(lastOp'.op = "new" /\ lastOp'.out = "started") =>
        /\ \E result \in getSudoku(difficulty) :
              StartedFrom(result, initialBoard', board', solution', notes')
        /\ selectedCell' = selectedCell
      ]_vars

\* a new game has just been started with a cell selected
NewGameWithSelection ==
    /\ lastOp.op = "new" /\ lastOp.out = "started"
    /\ selectedCell # NoCell

\* the cells a hint may fill: board-empty and not given
HintCandidates == {i \in Cells : board[i] = "." /\ initialBoard[i] = "."}

\* C8: hint effect. Whenever some cell is board-empty and not given, showHint
\* fills one of exactly those cells (each of them can be the one): it sets
\* the cell to its solution digit, removes the cell's notes and selects it,
\* whatever the mode flag and the previous selection.
HintEffect ==
    /\ [][(lastOp'.op = "hint" /\ board # Null /\ HintCandidates # {}) =>
            /\ lastOp'.out = "hinted"
            /\ selectedCell' \in HintCandidates
            /\ board'[selectedCell'] = solution[selectedCell']
            /\ selectedCell' \notin DOMAIN notes'
         ]_vars
    /\ [](board # Null =>
            \A i \in HintCandidates : ENABLED (showHint /\ selectedCell' = i))

\* a hint has just been given in note mode, with cells still empty
HintInNoteMode ==
    /\ lastOp.op = "hint" /\ lastOp.out = "hinted"
    /\ noteMode /\ ~IsFull(board)

\* C9: rejected writes do not mutate. A placeNumber with no cell selected, or
\* with a given selected, leaves board, notes, selection, mode flag and the
\* stored snapshot unchanged and does not throw.
RejectedWriteInert ==
    [][(/\ lastOp'.op = "place"
        /\ \/ selectedCell = NoCell
           \/ (initialBoard # Null /\ initialBoard[selectedCell] # ".")) =>
        /\ UNCHANGED <<board, notes, selectedCell, noteMode, storage>>
        /\ lastOp'.out # "threw"
      ]_vars

\* a number button has just been pressed in note mode with no cell selected
PlacedWithoutSelection ==
    /\ lastOp.op = "place" /\ lastOp.out = "noSelection"
    /\ noteMode /\ storage # Absent

\* C10: selecting a given is permitted. In every state a click on any cell i,
\* given or not, makes i the selection and changes neither board nor notes
\* nor mode; with a given selected, every write is then rejected.
SelectAnyCell ==
    /\ [](\A i \in ClickCells :
            ENABLED (/\ selectCell(i)
                     /\ selectedCell' = i
                     /\ board' = board /\ notes' = notes /\ noteMode' = noteMode))
    /\ [][lastOp'.op = "select" =>
            board' = board /\ notes' = notes /\ noteMode' = noteMode]_vars
    /\ []((board # Null /\ selectedCell # NoCell /\ initialBoard[selectedCell] # ".")
            => \A number \in Buttons :
                  ENABLED (placeNumber(number) /\ board' = board /\ notes' = notes))

\* a given cell has just been selected
GivenSelected ==
    /\ lastOp.op = "select" /\ lastOp.out = "ok"
    /\ initialBoard[selectedCell] # "."

\* C11: no game before the generator is ready. A startNewGame attempt made
\* while the generator is unavailable (from the button or a retry timer)
\* changes no engine state and no snapshot and leaves a retry timer pending;
\* while no game exists a retry is always pending; and once the generator is
\* available a game is eventually started, unless the page is loaded again
\* before the generator is.
NoGameBeforeReady ==
    /\ [][(lastOp'.op = "new" /\ ~libReady) =>
            /\ lastOp'.out = "loading"
            /\ UNCHANGED <<board, solution, initialBoard, selectedCell, difficulty,
                           noteMode, notes, storage>>
            /\ retries' >= 1
         ]_vars
    /\ [](board = Null => (retries >= 1 /\ solution = Null /\ initialBoard = Null))
    /\ ((board = Null /\ libReady) ~> (board # Null \/ ~libReady))

\* a new-game click has just been turned away while no game exists, with a
\* cell selected and note mode on, and two retries are pending
TurnedAwayWhileLoading ==
    /\ lastOp.op = "new" /\ lastOp.out = "loading"
    /\ board = Null /\ selectedCell # NoCell /\ noteMode
    /\ retries = MaxRetries

\* C12: graceful degradation when storage fails. A selectCell, placeNumber,
\* showHint or startNewGame whose store write fails keeps its in-memory
\* mutation, and the rest of its in-memory outcome is that of the handler with
\* a working store: when the step has just completed the board (outside note
\* mode for placeNumber), the win check runs and gives its verdict.
StoreFailureGraceful ==
    [][lastOp'.out = "storeThrew" =>
        /\ lastOp'.op = "select" =>
              selectedCell' \in Cells /\ board' = board /\ notes' = notes
        /\ lastOp'.op = "place" =>
              \E number \in Buttons :
                 /\ board' = PlaceBoard(board, noteMode, selectedCell, number)
                 /\ notes' = PlaceNotes(notes, noteMode, selectedCell, number)
        /\ lastOp'.op = "hint" =>
              /\ selectedCell' \in HintCandidates
              /\ board' = [board EXCEPT ![selectedCell'] = solution[selectedCell']]
              /\ selectedCell' \notin DOMAIN notes'
        /\ lastOp'.op = "new" =>
              \E result \in getSudoku(difficulty) :
                 StartedFrom(result, initialBoard', board', solution', notes')
        /\ (/\ lastOp'.op \in {"place", "hint"}
            /\ IsFull(board')
            /\ (lastOp'.op = "place" => ~noteMode)) =>
              lastOp'.win = IF board' = solution' THEN "won" ELSE "wrong"
      ]_vars

\* a placement whose store write failed has just completed the board
\* correctly, and no win check has run
SolvedUnnoticed ==
    /\ lastOp.op = "place" /\ lastOp.out = "storeThrew"
    /\ ~noteMode /\ board = solution /\ lastOp.win = "none"

\* a peer of cell i holds the value of cell i
Duplicated(b, i) == \E p \in UnitPeers(i) : b[p] = b[i]

\* C13: constraintViolation correctness. hasConstraintViolation(i) is true
\* exactly when board[i] is non-empty and another cell of its row, column or
\* box holds the same value; so it is true at both cells of a duplicated
\* pair, and false at every cell of a board with no duplicate in any unit.
ConstraintViolationCorrect ==
    lastOp.op = "violation" =>
        \A i \in lastOp.elim :
           /\ lastOp.out = "error" <=> (board[i] # "." /\ Duplicated(board, i))
           /\ \A p \in UnitPeers(i) :
                 (board[i] # "." /\ board[p] = board[i]) =>
                    (lastOp.out = "error" /\ hasConstraintViolation(board, p))
           /\ (\A j \in Cells : board[j] # "." => ~Duplicated(board, j)) =>
                 lastOp.out = "clean"

\* cell 20 has just been found in violation, its value duplicated in its
\* box and neither in its row nor in its column, while another cell of the
\* box is empty
ViolationByBoxOnly ==
    /\ lastOp.op = "violation" /\ lastOp.out = "error" /\ lastOp.elim = {20}
    /\ board[0] = board[20]
    /\ \A p \in UnitPeers(20) :
          (p \div 9 = 2 \/ p % 9 = 2) => board[p] # board[20]

\* C14: the note toggle is an involution. After a note-mode press of digit d
\* on a selected, empty, non-given cell, a second press of d puts the cell's
\* note set and board value, and with them the whole notes mapping and
\* board, back to what they were before the first press, whatever the note
\* set was; starting from no notes, the mapping ends with no entry for the
\* cell.
NoteToggleInvolution ==
    [][(lastOp'.out = "noted" /\ board[selectedCell] = ".") =>
        LET c == selectedCell
            before == NoteSet(notes, c)
            after == NoteSet(notes', c)
        IN \E d \in Digits :
              /\ \/ (d \notin before /\ after = before \cup {d})
                 \/ (d \in before /\ after = before \ {d})
              /\ PlaceNotes(notes', noteMode', selectedCell', d) = notes
              /\ PlaceBoard(board', noteMode', selectedCell', d) = board
              /\ (before = {} => c \notin DOMAIN notes)
      ]_vars

\* a note has just been toggled off, leaving the selected empty cell with no
\* entry while another cell keeps its notes
NoteToggledBack ==
    /\ lastOp.op = "place" /\ lastOp.out = "noted"
    /\ board[selectedCell] = "." /\ selectedCell \notin DOMAIN notes
    /\ notes # EmptyNotes

\* C15: erase is a hard reset in both modes. A placeNumber with the erase
\* symbol on a selected non-given cell leaves the cell with an empty value
\* and no notes entry, in value mode and in note mode, and leaves every other
\* cell's value and notes as they were.
EraseHardReset ==
    [][lastOp'.out = "erased" =>
        LET c == selectedCell
        IN /\ board'[c] = "."
           /\ c \notin DOMAIN notes'
           /\ \A i \in Cells \ {c} :
                 /\ board'[i] = board[i]
                 /\ i \in DOMAIN notes' <=> i \in DOMAIN notes
                 /\ NoteSet(notes', i) = NoteSet(notes, i)
           /\ lastOp'.win = "none"
      ]_vars

\* an erase has just been done in value mode, while a peer of the erased
\* cell keeps a note and another cell a value
ErasedBesideNotes ==
    /\ lastOp.op = "place" /\ lastOp.out = "erased" /\ ~noteMode
    /\ \E p \in UnitPeers(selectedCell) \cap DOMAIN notes : TRUE
    /\ \E i \in NonGiven : board[i] # "."

\* the cells validate reports, the spec's way
Incorrect == {i \in NonGiven : board[i] # "." /\ board[i] # solution[i]}
Correct == {i \in NonGiven : board[i] # "." /\ board[i] = solution[i]}

\* C16: validate is read-only and idempotent. validateBoard leaves board,
\* notes, selection, mode and the stored snapshot unchanged; it flags as
\* incorrect exactly the non-given, non-empty cells that differ from the
\* solution and as correct exactly those that equal it; a second call right
\* after the first gives the same result.
ValidateReadOnly ==
    [][lastOp'.op = "validate" =>
        /\ UNCHANGED <<board, solution, initialBoard, notes, selectedCell,
                       noteMode, storage>>
        /\ board # Null =>
              /\ ValidateError(board, initialBoard, solution) = Incorrect
              /\ ValidateCorrect(board, initialBoard, solution) = Correct
              /\ lastOp'.out = IF Incorrect # {} THEN "hasErrors" ELSE "noErrors"
        /\ lastOp.op = "validate" => lastOp'.out = lastOp.out
      ]_vars

\* validate has just reported errors on a board that also has a correct
\* entry and an empty cell
ValidatedWithErrors ==
    /\ lastOp.op = "validate" /\ lastOp.out = "hasErrors"
    /\ Correct # {} /\ ~IsFull(board)

\* a stored snapshot with every legacy note written as a one-element list
AsLists(snapshot) ==
    [snapshot EXCEPT !.notes =
        [k \in DOMAIN @ |->
            IF @[k].kind = "string" THEN [kind |-> "array", items |-> <<@[k].str>>, str |-> ""]
            ELSE @[k]]]

\* C17: legacy note format. The state loaded from a snapshot in which a
\* cell's note is a single-character string is the state loaded from the
\* same snapshot with that note written as a one-element list: the cell's
\* candidate set is the one-element set of that character.
LegacyNotesLoad ==
    (lastOp.op = "construct" /\ lastOp.out = "loaded") =>
        /\ Current = LoadedGame(<<AsLists(storage[1])>>)
        /\ \A k \in DOMAIN storage[1].notes :
              storage[1].notes[k].kind = "string" =>
                 (k \in DOMAIN notes /\ notes[k] = {storage[1].notes[k].str})

\* a snapshot holding a legacy note at one cell and a two-digit list at
\* another has just been loaded
LegacyAndListLoaded ==
    /\ lastOp.op = "construct" /\ lastOp.out = "loaded"
    /\ \E k \in DOMAIN storage[1].notes :
          storage[1].notes[k].kind = "string" /\ notes[k] = {storage[1].notes[k].str}
    /\ \E k \in DOMAIN storage[1].notes :
          storage[1].notes[k].kind = "array" /\ Cardinality(notes[k]) = 2

\* cell p holds note d while a peer of p holds the value d
Conflict(b, nts, p, d) ==
    /\ p \in DOMAIN nts
    /\ d \in nts[p]
    /\ \E q \in UnitPeers(p) : b[q] = d

\* C18 as stated: in every reachable state no cell's note set contains a
\* digit that is the board value of one of its peers.
NotesConsistent ==
    board # Null => \A p \in DOMAIN notes : \A d \in notes[p] : ~Conflict(board, notes, p, d)

\* C18 as amended: no commit, hint, erase, new game or load puts a note in
\* conflict with a peer's value; a note comes to hold a digit that a peer
\* holds only by being toggled on at its cell in note mode, which is not
\* checked against the peers (givens included).
ConflictOnlyByToggle ==
    [][(board # Null /\ board' # Null) =>
        \A p \in DOMAIN notes' : \A d \in notes'[p] :
           (Conflict(board', notes', p, d) /\ ~Conflict(board, notes, p, d)) =>
              (lastOp'.out = "noted" /\ selectedCell' = p)
      ]_vars

\* a note has just been toggled on whose digit a given peer of the cell holds
NotedAgainstGiven ==
    /\ lastOp.op = "place" /\ lastOp.out = "noted"
    /\ \E d \in Digits :
          /\ Conflict(board, notes, selectedCell, d)
          /\ \E q \in UnitPeers(selectedCell) :
                board[q] = d /\ initialBoard[q] # "."

\* C19: note sets are never empty. Every entry of the notes mapping is a
\* non-empty set of digits, and every note list of the stored snapshot is
\* non-empty, also after a toggle took a cell's last note and after note
\* elimination took a cell's last candidate.
NoteSetsNonEmpty ==
    /\ \A i \in DOMAIN notes : notes[i] # {} /\ notes[i] \subseteq Digits
    /\ storage # Absent =>
          \A k \in DOMAIN storage[1].notes :
             /\ storage[1].notes[k].kind = "array"
             /\ Len(storage[1].notes[k].items) >= 1

\* a placement has just taken the last candidate of a peer, whose entry is
\* gone from the mapping and from the snapshot written, other notes staying
LastCandidateEliminated ==
    /\ lastOp.op = "place" /\ lastOp.out = "placed"
    /\ storage # Absent
    /\ \E p \in lastOp.elim :
          p \notin DOMAIN notes /\ p \notin DOMAIN storage[1].notes
    /\ notes # EmptyNotes /\ DOMAIN storage[1].notes = DOMAIN notes

\* C20: hints terminate. Each successful showHint takes exactly one cell, the
\* one it fills, out of the board-empty non-given cells; showHint succeeds
\* whenever there is such a cell and otherwise reports that no hint is
\* available, leaving board, notes and selection unchanged; with exactly one
\* such cell the hint fills that cell and leaves none.
HintsTerminate ==
    /\ [][(lastOp'.op = "hint" /\ board # Null) =>
            IF HintCandidates = {}
            THEN /\ lastOp'.out = "noHint"
                 /\ UNCHANGED <<board, notes, selectedCell>>
            ELSE /\ lastOp'.out = "hinted"
                 /\ HintCandidates' = HintCandidates \ {selectedCell'}
                 /\ Cardinality(HintCandidates') = Cardinality(HintCandidates) - 1
                 /\ Cardinality(HintCandidates) = 1 =>
                       (HintCandidates = {selectedCell'} /\ HintCandidates' = {})
         ]_vars
    /\ [](board # Null =>
            ENABLED (showHint /\ lastOp'.out =
                        IF HintCandidates = {} THEN "noHint" ELSE "hinted"))

\* a hint has just been refused on a board that hints and placements filled,
\* the store cleared by the win before
HintAfterLast ==
    /\ lastOp.op = "hint" /\ lastOp.out = "noHint"
    /\ board = solution /\ storage = Absent /\ selectedCell # NoCell

\* C21: placement is never blocked. In value mode, with a non-given cell
\* selected, placeNumber of any digit d sets the cell to d, whether or not d
\* is the solution's digit or a peer holds it; and after a placement that
\* duplicates a peer's value, hasConstraintViolation is true at the placed
\* cell and at that peer.
PlacementNeverBlocked ==
    /\ []((/\ board # Null /\ ~noteMode /\ selectedCell # NoCell
            /\ initialBoard[selectedCell] = ".") =>
             \A d \in Buttons \ {""} :
                ENABLED (/\ placeNumber(d)
                         /\ lastOp'.out = "placed"
                         /\ board'[selectedCell] = d))
    /\ [][lastOp'.out = "placed" =>
            \A p \in UnitPeers(selectedCell) :
               board'[p] = board'[selectedCell] =>
                  /\ hasConstraintViolation(board', selectedCell)
                  /\ hasConstraintViolation(board', p)
         ]_vars

\* a digit has just been placed that is not the solution's and that a peer
\* of the cell holds
PlacedWrongDuplicate ==
    /\ lastOp.op = "place" /\ lastOp.out = "placed"
    /\ board[selectedCell] # solution[selectedCell]
    /\ \E p \in UnitPeers(selectedCell) : board[p] = board[selectedCell]
    /\ hasConstraintViolation(board, selectedCell)

\* C22 as stated: once a game exists, after every selectCell, placeNumber,
\* showHint, startNewGame, note-mode toggle and difficulty change the store
\* is empty or holds exactly the serialization of the current board,
\* solution, initial board, notes, difficulty, selected cell and mode flag.
SnapshotTracksMemory ==
    (/\ board # Null
     /\ lastOp.op \in {"select", "place", "hint", "new", "mode", "difficulty"}) =>
        (storage = Absent \/ storage = SavedNow)

\* the difficulty has just been changed in a game and the stored snapshot
\* still names the difficulty left
DifficultyNotStored ==
    /\ lastOp.op = "difficulty" /\ board # Null
    /\ storage # Absent /\ storage[1].difficulty # difficulty
    /\ [storage[1] EXCEPT !.difficulty = difficulty] = SavedNow[1]

\* C23 as stated: from the moment a correct win has cleared the store, no
\* selectCell, note-mode toggle, placeNumber or showHint writes a snapshot,
\* and a reload never resumes an already solved board.
WonNeverRepersisted ==
    /\ [][(/\ board # Null /\ board = solution /\ storage = Absent
            /\ lastOp'.op \in {"select", "mode", "place", "hint"}) =>
              storage' = Absent
         ]_vars
    /\ [][(lastOp'.op = "construct" /\ lastOp'.out = "loaded") =>
              board' # solution'
         ]_vars

\* a reload has just resumed a solved board
SolvedBoardResumed ==
    /\ lastOp.op = "construct" /\ lastOp.out = "loaded"
    /\ board = solution

\* the player has placed a value or taken a hint in the current game
Progress == \E i \in Cells : board[i] # initialBoard[i]

\* C24 as stated: when startNewGame was requested more than once while the
\* generator was unavailable, a retry timer still pending after the first
\* game has started never replaces a board on which the player has placed a
\* value or taken a hint: a startNewGame that replaces such a board is one
\* the new-game button called (which takes no timer off the pending ones).
RetryKeepsProgress ==
    [][(/\ lastOp'.op = "new" /\ lastOp'.out = "started"
        /\ board # Null /\ Progress) =>
          retries' = retries
      ]_vars

\* a game is in progress, the generator loaded, and a retry timer is still
\* pending
ProgressWithRetryPending ==
    /\ board # Null /\ Progress
    /\ libReady /\ retries > 0

\* C25 as stated: when loadGame reports invalid, it has changed no field, so
\* the game the constructor's fallback startNewGame starts (or waits for) has
\* no selection, the mode flag off, the default difficulty and no notes.
RejectedLoadNoTrace ==
    (lastOp.op = "construct" /\ lastOp.out \in {"started", "loading"}) =>
        /\ selectedCell = NoCell
        /\ noteMode = FALSE
        /\ difficulty = "medium"
        /\ notes = EmptyNotes

\* the constructor has just started a fresh game that has the selection,
\* the mode flag and the difficulty of the snapshot its loadGame rejected
FallbackKeepsRejected ==
    /\ lastOp.op = "construct" /\ lastOp.out = "started"
    /\ board = initialBoard /\ notes = EmptyNotes
    /\ selectedCell # NoCell /\ noteMode /\ difficulty = "hard"

====
